---- MODULE Spec2Model ----
(***************************************************************************)
(* Model of imhotep/repositories.py: FileCompare (construction, the        *)
(* unified-diff patch parser, get_position_for_line) and SourceCodeLine    *)
(* (from_line, JsLine.is_function_definition, JsLine.is_named_function).   *)
(*                                                                         *)
(* Python strings are sequences of one-character strings, so startswith,   *)
(* split, splitlines, int and the regular expressions are computed on the  *)
(* characters.  A Python value is a record [type, v]; None is NoneVal.     *)
(* An exception is a record [kind, args] as in Python's e.args.            *)
(***************************************************************************)
EXTENDS Integers, Sequences, FiniteSets, TLC

VARIABLES
    data,                \* the raw record handed to FileCompare(data)
    pc,                  \* "new" | "parse" | "loop" | "done" | "raised"; "text" | "src" in SpecJs
    err,                 \* the exception that left the constructor / the call
    logged,              \* the records written by log.error
    filename,            \* self.filename
    patch,               \* self.patch
    modified_positions,  \* self.modified_positions: position -> SourceCodeLine
    modified_lines,      \* self.modified_lines: line number -> SourceCodeLine
    positions_by_line,   \* self.positions_by_line: line number -> position
    lines,               \* local of _parse_patch
    idx,                 \* 1-based index in lines of the line the loop is at
    start_line,          \* local of _parse_patch
    count,               \* local of _parse_patch
    position_offset,     \* local of _parse_patch
    line_offset,         \* local of _parse_patch
    nextId,              \* identity given to the next SourceCodeLine object
    result,              \* outcome of the last get_position_for_line call
    src,                 \* a SourceCodeLine under classification (SpecJs)
    name,                \* the name asked of is_named_function (SpecJs)
    isdef,               \* outcome of is_function_definition (SpecJs)
    isnamed              \* outcome of is_named_function (SpecJs)

vars == <<data, pc, err, logged, filename, patch, modified_positions,
          modified_lines, positions_by_line, lines, idx, start_line, count,
          position_offset, line_offset, nextId, result, src, name, isdef,
          isnamed>>

parseVars == <<lines, idx, start_line, count, position_offset, line_offset>>
mapVars == <<modified_positions, modified_lines, positions_by_line>>
jsVars == <<src, name, isdef, isnamed>>

----------------------------------------------------------------------------
(* Bounds *)

MaxBody == 3         \* body lines of a patch (lines after the first)
MaxQueryLine == 4    \* get_position_for_line is asked about 0..MaxQueryLine
MaxNameLen == 3      \* characters of a JavaScript function name
MaxIndent == 1       \* leading blanks of a JavaScript line

----------------------------------------------------------------------------
(* Python values *)

Str(s) == [type |-> "str", v |-> s]
NoneVal == [type |-> "None", v |-> <<>>]
NoErr == [kind |-> "none", args |-> <<>>]
Raise(kind, args) == [kind |-> kind, args |-> args]
Range(f) == {f[x] : x \in DOMAIN f}

EmptyDict == <<>>
DictPut(d, k, v) == [x \in (DOMAIN d) \cup {k} |-> IF x = k THEN v ELSE d[x]]

----------------------------------------------------------------------------
(* str methods *)

StartsWith(s, p) == Len(s) >= Len(p) /\ SubSeq(s, 1, Len(p)) = p
EndsWith(s, p) == Len(s) >= Len(p) /\ SubSeq(s, Len(s) - Len(p) + 1, Len(s)) = p

IsSpace(c) == c \in {" ", "\n"}

RECURSIVE SplitOn(_, _)
\* s.split(c): the pieces between the occurrences of c, empty pieces kept.
SplitOn(s, c) ==
    IF \E i \in 1..Len(s) : s[i] = c
    THEN LET i == CHOOSE j \in 1..Len(s) :
                      s[j] = c /\ \A k \in 1..(j - 1) : s[k] # c
         IN <<SubSeq(s, 1, i - 1)>> \o SplitOn(SubSeq(s, i + 1, Len(s)), c)
    ELSE <<s>>

\* s.split(): split on runs of whitespace, no empty pieces.
NonEmpty(t) == t # <<>>
SplitWs(s) ==
    SelectSeq(SplitOn([i \in 1..Len(s) |-> IF IsSpace(s[i]) THEN " " ELSE s[i]], " "),
              NonEmpty)

\* s.splitlines(): no line for the empty string, none after a final newline.
SplitLines(s) ==
    IF s = <<>> THEN <<>>
    ELSE LET parts == SplitOn(s, "\n")
         IN IF parts[Len(parts)] = <<>>
            THEN SubSeq(parts, 1, Len(parts) - 1)
            ELSE parts

RECURSIVE Strip(_)
Strip(s) ==
    IF s = <<>> THEN s
    ELSE IF IsSpace(s[1]) THEN Strip(Tail(s))
    ELSE IF IsSpace(s[Len(s)]) THEN Strip(SubSeq(s, 1, Len(s) - 1))
    ELSE s

Digits == <<"0", "1", "2", "3", "4", "5", "6", "7", "8", "9">>
IsDigit(c) == \E d \in 1..10 : Digits[d] = c
DigitVal(c) == (CHOOSE d \in 1..10 : Digits[d] = c) - 1

RECURSIVE DecVal(_)
DecVal(s) == IF s = <<>> THEN 0
             ELSE 10 * DecVal(SubSeq(s, 1, Len(s) - 1)) + DigitVal(s[Len(s)])

\* int(s) for a str: blanks stripped, an optional sign, one or more digits.
ParseInt(s) ==
    LET t == Strip(s)
        signed == t # <<>> /\ t[1] \in {"+", "-"}
        body == IF signed THEN Tail(t) ELSE t
    IN IF body # <<>> /\ \A i \in 1..Len(body) : IsDigit(body[i])
       THEN [ok |-> TRUE,
             v |-> IF signed /\ t[1] = "-" THEN 0 - DecVal(body) ELSE DecVal(body)]
       ELSE [ok |-> FALSE, v |-> 0]

----------------------------------------------------------------------------
(* String literals of the source and of the inputs *)

HunkMarker == <<"@", "@", " ">>                 \* '@@ '
DotPy == <<".", "p", "y">>                         \* '.py'
DotJs == <<".", "j", "s">>                          \* '.js'
FunctionKw == <<"f", "u", "n", "c", "t", "i", "o", "n", " ">>   \* 'function '
Newline == <<"\n">>

K_sha == <<"s", "h", "a">>
K_filename == <<"f", "i", "l", "e", "n", "a", "m", "e">>
K_status == <<"s", "t", "a", "t", "u", "s">>
K_additions == <<"a", "d", "d", "i", "t", "i", "o", "n", "s">>
K_deletions == <<"d", "e", "l", "e", "t", "i", "o", "n", "s">>
K_changes == <<"c", "h", "a", "n", "g", "e", "s">>
K_contents_url == <<"c", "o", "n", "t", "e", "n", "t", "s", "_", "u", "r", "l">>
K_patch == <<"p", "a", "t", "c", "h">>

\* The keys FileCompare.__init__ reads with data[...], in the order it reads them.
MandatoryKeys == <<K_sha, K_filename, K_status, K_additions, K_deletions,
                   K_changes, K_contents_url>>
AllKeys == Range(MandatoryKeys) \cup {K_patch}

Lower == {"a", "b", "c", "d", "e", "f", "g", "h", "i", "j", "k", "l", "m",
          "n", "o", "p", "q", "r", "s", "t", "u", "v", "w", "x", "y", "z"}
Upper == {"A", "B", "C", "D", "E", "F", "G", "H", "I", "J", "K", "L", "M",
          "N", "O", "P", "Q", "R", "S", "T", "U", "V", "W", "X", "Y", "Z"}
\* \w of the re module
IsWordChar(c) == c \in Lower \/ c \in Upper \/ IsDigit(c) \/ c = "_"

----------------------------------------------------------------------------
(* Inputs: file names, patch lines *)

FilePy == <<"a", ".", "p", "y">>
FileJs == <<"a", ".", "j", "s">>
FileTxt == <<"a", ".", "t", "x", "t">>
Filenames == {FilePy, FileJs, FileTxt}

H_1 == <<"@", "@", " ", "-", "1", " ", "+", "1", " ", "@", "@">>          \* '@@ -1 +1 @@'
H_2_2 == <<"@", "@", " ", "-", "2", ",", "2", " ", "+", "2", ",", "2", " ", "@", "@">>   \* '@@ -2,2 +2,2 @@'
H_short == <<"@", "@", " ", "-", "1">>                                 \* '@@ -1': two tokens
H_three == <<"@", "@", " ", "-", "1", " ", "+", "1", ",", "2", ",", "3", " ", "@", "@">>  \* '@@ -1 +1,2,3 @@'
H_alpha == <<"@", "@", " ", "-", "1", " ", "+", "x", " ", "@", "@">>                \* '@@ -1 +x @@'
L_add == <<"+", "a">>       \* '+a'
L_del == <<"-", "b">>       \* '-b'
L_ctx == <<" ", "c">>       \* ' c'
L_other == <<"x", "d">>     \* 'xd': first character none of '+', '-', ' '
L_empty == <<>>             \* a zero-length line

ValidHeaders == {H_1, H_2_2}
BadHeaders == {H_short, H_three, H_alpha}
FirstLines == ValidHeaders \cup BadHeaders \cup {L_add}
BodyLines == ValidHeaders \cup {H_short, H_alpha} \cup {L_add, L_del, L_ctx, L_other, L_empty}

RECURSIVE JoinLines(_)
\* '\n'.join(ls)
JoinLines(ls) ==
    IF ls = <<>> THEN <<>>
    ELSE IF Len(ls) = 1 THEN ls[1]
    ELSE ls[1] \o Newline \o JoinLines(Tail(ls))

Bodies(n) == UNION {[1..k -> BodyLines] : k \in 0..n}

----------------------------------------------------------------------------
(* FileCompare.parse_unified_diff *)

IntVal(n) == [type |-> "int", v |-> n]
Msg(fmt, arg) == [type |-> "str", fmt |-> fmt, v |-> arg]
HeaderOk(start, cnt) == [err |-> NoErr, start |-> start, count |-> cnt]
HeaderFail(e) == [err |-> e, start |-> 0, count |-> NoneVal]

\* The (start, count) of the new-file range of a hunk header, or the exception.
parse_unified_diff(diffline) ==
    IF ~StartsWith(diffline, HunkMarker)
    THEN HeaderFail(Raise("ValueError", <<Msg("Bad unified diff line: {}", diffline)>>))
    ELSE LET parts == SplitWs(diffline)
         IN IF Len(parts) < 3
            THEN HeaderFail(Raise("IndexError", <<Msg("list index out of range", <<>>)>>))
            ELSE LET split == SplitOn(parts[3], ",")
                 IN IF Len(split) \notin {1, 2}
                    THEN HeaderFail(Raise("ValueError",
                                          <<Msg("Unexpected diff line: {}", diffline)>>))
                    ELSE LET start == ParseInt(split[1])
                             cnt == IF Len(split) = 2 THEN ParseInt(split[2])
                                    ELSE [ok |-> TRUE, v |-> 0]
                         IN IF ~start.ok
                            THEN HeaderFail(Raise("ValueError",
                                     <<Msg("invalid literal for int() with base 10: {}",
                                           split[1])>>))
                            ELSE IF ~cnt.ok
                            THEN HeaderFail(Raise("ValueError",
                                     <<Msg("invalid literal for int() with base 10: {}",
                                           split[2])>>))
                            ELSE HeaderOk(start.v,
                                          IF Len(split) = 2 THEN IntVal(cnt.v)
                                          ELSE NoneVal)

----------------------------------------------------------------------------
(* SourceCodeLine *)

NoSource == [id |-> 0, cls |-> "none", text |-> <<>>]

\* SourceCodeLine.from_line: the dialect is chosen by the file name's suffix.
from_line(fname, text, id) ==
    IF EndsWith(fname, DotPy)
    THEN [err |-> NoErr, obj |-> [id |-> id, cls |-> "PyLine", text |-> text]]
    ELSE IF EndsWith(fname, DotJs)
    THEN [err |-> NoErr, obj |-> [id |-> id, cls |-> "JsLine", text |-> text]]
    ELSE [err |-> Raise("UnknownSourceType", <<Msg("I can't handle {} yet.", fname)>>),
          obj |-> NoSource]

\* JsLine.FUNC_DEF_REX.match(text): ^\s*?function [\w+]\(
\* The class [\w+] is ONE character, a word character or '+'.
JsFuncDefMatch(text) ==
    \E k \in 0..Len(text) :
        /\ \A i \in 1..k : IsSpace(text[i])
        /\ StartsWith(SubSeq(text, k + 1, Len(text)), FunctionKw)
        /\ Len(text) >= k + Len(FunctionKw) + 2
        /\ LET c == text[k + Len(FunctionKw) + 1]
           IN IsWordChar(c) \/ c = "+"
        /\ text[k + Len(FunctionKw) + 2] = "("

\* JsLine.is_named_function(name)
JsIsNamedFunction(text, nm) ==
    StartsWith(Strip(text), FunctionKw \o nm \o <<"(">>)

----------------------------------------------------------------------------
(* FileCompare *)

DictGet(d, k) == IF k \in DOMAIN d THEN d[k] ELSE NoneVal

\* A guard that tests `self.patch is None` only.
IsFalsy_NoneOnly(v) == v.type = "None"
\* `not self.patch`
IsFalsy(v) == v.type = "None" \/ v.v = <<>>

\* The first mandatory key, in reading order, that data lacks (0: none).
FirstMissing(d) ==
    IF \E i \in 1..Len(MandatoryKeys) : MandatoryKeys[i] \notin DOMAIN d
    THEN CHOOSE i \in 1..Len(MandatoryKeys) :
            /\ MandatoryKeys[i] \notin DOMAIN d
            /\ \A j \in 1..(i - 1) : MandatoryKeys[j] \in DOMAIN d
    ELSE 0

\* FileCompare.__init__ up to the call of _parse_patch.
FileCompareInit ==
    /\ pc = "new"
    /\ LET m == FirstMissing(data)
       IN IF m # 0
          THEN /\ logged' = Append(logged, data)
               /\ err' = Raise("KeyError", <<Str(MandatoryKeys[m])>>)
               /\ pc' = "raised"
               /\ UNCHANGED <<filename, patch, mapVars>>
          ELSE /\ filename' = data[K_filename].v
               /\ patch' = DictGet(data, K_patch)
               /\ modified_positions' = EmptyDict
               /\ modified_lines' = EmptyDict
               /\ positions_by_line' = EmptyDict
               /\ pc' = "parse"
               /\ UNCHANGED <<logged, err>>
    /\ UNCHANGED <<data, parseVars, nextId, result, jsVars>>

\* _parse_patch up to the loop.
ParsePatchBegin ==
    /\ pc = "parse"
    /\ modified_positions' = EmptyDict
    /\ modified_lines' = EmptyDict
    /\ positions_by_line' = EmptyDict
    /\ IF IsFalsy(patch)
       THEN /\ pc' = "done"
            /\ UNCHANGED <<parseVars, err>>
       ELSE LET ls == SplitLines(patch.v)
            IN /\ lines' = ls
               /\ IF ls = <<>>
                  THEN /\ err' = Raise("IndexError",
                                       <<Msg("list index out of range", <<>>)>>)
                       /\ pc' = "raised"
                       /\ idx' = 1
                       /\ UNCHANGED <<start_line, count, position_offset, line_offset>>
                  ELSE LET h == parse_unified_diff(ls[1])
                       IN IF h.err.kind # "none"
                          THEN /\ err' = h.err
                               /\ pc' = "raised"
                               /\ idx' = 1
                               /\ UNCHANGED <<start_line, count, position_offset,
                                              line_offset>>
                          ELSE /\ start_line' = h.start
                               /\ count' = h.count
                               /\ position_offset' = 0
                               /\ line_offset' = 0
                               /\ idx' = 2
                               /\ pc' = IF Len(ls) >= 2 THEN "loop" ELSE "done"
                               /\ UNCHANGED err
    /\ UNCHANGED <<data, logged, filename, patch, nextId, result, jsVars>>

IsHunkHeader(line) == StartsWith(line, HunkMarker)
IsAdded(line) == line[1] = "+"
\* A removed line counted as a line of the new file.
AdvancesLine_Always(line) == TRUE
AdvancesLine(line) == line[1] # "-"
\* A hunk header that takes no position.
PositionAfter_SkipHeader(line, po) == IF IsHunkHeader(line) THEN po ELSE po + 1
PositionAfter(line, po) == po + 1
AfterLine(i) == IF i + 1 > Len(lines) THEN "done" ELSE "loop"

\* One iteration of the loop of _parse_patch, on lines[idx].
ParseLine ==
    /\ pc = "loop"
    /\ LET line == lines[idx]
       IN IF IsHunkHeader(line)
          THEN LET h == parse_unified_diff(line)
               IN IF h.err.kind # "none"
                  THEN /\ err' = h.err
                       /\ pc' = "raised"
                       /\ UNCHANGED <<mapVars, idx, start_line, count,
                                      position_offset, line_offset, nextId>>
                  ELSE /\ start_line' = h.start
                       /\ count' = h.count
                       /\ line_offset' = 0
                       /\ position_offset' = PositionAfter(line, position_offset)
                       /\ idx' = idx + 1
                       /\ pc' = AfterLine(idx)
                       /\ UNCHANGED <<mapVars, err, nextId>>
          ELSE IF line = <<>>
          THEN \* line[0] of a zero-length line
               /\ err' = Raise("IndexError", <<Msg("string index out of range", <<>>)>>)
               /\ pc' = "raised"
               /\ UNCHANGED <<mapVars, idx, start_line, count, position_offset,
                              line_offset, nextId>>
          ELSE IF IsAdded(line)
          THEN LET s == from_line(filename, Tail(line), nextId)
               IN IF s.err.kind # "none"
                  THEN \* except UnknownSourceType: continue
                       /\ idx' = idx + 1
                       /\ pc' = AfterLine(idx)
                       /\ UNCHANGED <<mapVars, err, start_line, count,
                                      position_offset, line_offset, nextId>>
                  ELSE LET line_num == start_line + line_offset
                           position_num == position_offset + 1
                       IN /\ modified_positions' =
                                 DictPut(modified_positions, position_num, s.obj)
                          /\ modified_lines' = DictPut(modified_lines, line_num, s.obj)
                          /\ positions_by_line' =
                                 DictPut(positions_by_line, line_num, position_num)
                          /\ nextId' = nextId + 1
                          /\ line_offset' = IF AdvancesLine(line) THEN line_offset + 1
                                            ELSE line_offset
                          /\ position_offset' = PositionAfter(line, position_offset)
                          /\ idx' = idx + 1
                          /\ pc' = AfterLine(idx)
                          /\ UNCHANGED <<err, start_line, count>>
          ELSE /\ line_offset' = IF AdvancesLine(line) THEN line_offset + 1
                                 ELSE line_offset
               /\ position_offset' = PositionAfter(line, position_offset)
               /\ idx' = idx + 1
               /\ pc' = AfterLine(idx)
               /\ UNCHANGED <<mapVars, err, start_line, count, nextId>>
    /\ UNCHANGED <<data, logged, filename, patch, lines, result, jsVars>>

NoResult == [kind |-> "none", arg |-> 0, value |-> 0]

\* A lookup that falls back to the nearest recorded line below.
Lookup_Nearest(d, k) ==
    IF k \in DOMAIN d THEN [kind |-> "return", arg |-> k, value |-> d[k]]
    ELSE IF \E j \in DOMAIN d : j < k
    THEN [kind |-> "return", arg |-> k,
          value |-> d[CHOOSE j \in DOMAIN d : j < k /\ \A i \in DOMAIN d : i < k => i <= j]]
    ELSE [kind |-> "KeyError", arg |-> k, value |-> 0]
\* self.positions_by_line[int(line_num)]
Lookup(d, k) ==
    IF k \in DOMAIN d THEN [kind |-> "return", arg |-> k, value |-> d[k]]
    ELSE [kind |-> "KeyError", arg |-> k, value |-> 0]

\* FileCompare.get_position_for_line(line_num), on a constructed object.
GetPositionForLine ==
    /\ pc = "done"
    /\ \E line_num \in 0..MaxQueryLine :
           result' = Lookup(positions_by_line, line_num)
    /\ UNCHANGED <<data, pc, err, logged, filename, patch, mapVars, parseVars,
                   nextId, jsVars>>

----------------------------------------------------------------------------
(* Classification of one source line (SourceCodeLine.from_line and JsLine) *)

Bool(b) == IF b THEN "True" ELSE "False"

\* SourceCodeLine.from_line(filename, text) called on its own.
SourceFromLine ==
    /\ pc = "text"
    /\ LET s == from_line(filename, src.text, nextId)
       IN IF s.err.kind # "none"
          THEN /\ err' = s.err
               /\ pc' = "raised"
               /\ UNCHANGED <<src, nextId>>
          ELSE /\ src' = s.obj
               /\ nextId' = nextId + 1
               /\ pc' = "src"
               /\ UNCHANGED err
    /\ UNCHANGED <<data, logged, filename, patch, mapVars, parseVars, result,
                   name, isdef, isnamed>>

\* SourceCodeLine.is_function_definition() on a JsLine.
IsFunctionDefinition ==
    /\ pc = "src"
    /\ src.cls = "JsLine"
    /\ isdef = "unset"
    /\ isdef' = Bool(JsFuncDefMatch(src.text))
    /\ UNCHANGED <<data, pc, err, logged, filename, patch, mapVars, parseVars,
                   nextId, result, src, name, isnamed>>

\* JsLine.is_named_function(name).
IsNamedFunction ==
    /\ pc = "src"
    /\ src.cls = "JsLine"
    /\ isnamed = "unset"
    /\ isnamed' = Bool(JsIsNamedFunction(src.text, name))
    /\ UNCHANGED <<data, pc, err, logged, filename, patch, mapVars, parseVars,
                   nextId, result, src, name, isdef>>

----------------------------------------------------------------------------
(* Specifications *)

PlaceholderValue == Str(<<"v">>)

\* A raw record: any one key may be absent; the patch is None or a text.
Record(fname, pv, absent) ==
    [k \in AllKeys \ absent |->
        IF k = K_filename THEN Str(fname)
        ELSE IF k = K_patch THEN pv
        ELSE PlaceholderValue]

PatchTexts ==
    {JoinLines(<<first>> \o body) : first \in ValidHeaders, body \in Bodies(MaxBody)}
    \cup {JoinLines(<<first>> \o body) :
              first \in FirstLines \ ValidHeaders, body \in Bodies(1)}
    \cup {<<>>}
PatchValues == {NoneVal} \cup {Str(t) : t \in PatchTexts}
FewPatchValues == {NoneVal, Str(<<>>), Str(JoinLines(<<H_1, L_add>>))}

Idle ==
    /\ err = NoErr
    /\ logged = <<>>
    /\ patch = NoneVal
    /\ modified_positions = EmptyDict
    /\ modified_lines = EmptyDict
    /\ positions_by_line = EmptyDict
    /\ lines = <<>>
    /\ idx = 0
    /\ start_line = 0
    /\ count = NoneVal
    /\ position_offset = 0
    /\ line_offset = 0
    /\ nextId = 1
    /\ result = NoResult

Init ==
    /\ pc = "new"
    /\ \/ \E fname \in Filenames, pv \in PatchValues, absent \in {{}, {K_patch}} :
              data = Record(fname, pv, absent)
       \/ \E fname \in Filenames, pv \in FewPatchValues, k \in Range(MandatoryKeys) :
              data = Record(fname, pv, {k})
    /\ Idle
    /\ filename = <<>>
    /\ src = NoSource
    /\ name = <<>>
    /\ isdef = "unset"
    /\ isnamed = "unset"

Next ==
    \/ FileCompareInit
    \/ ParsePatchBegin
    \/ ParseLine
    \/ GetPositionForLine

Spec == Init /\ [][Next]_vars

NameChars == {"f", "o", "_"}
Names == UNION {[1..k -> NameChars] : k \in 0..MaxNameLen}
Indents == UNION {[1..k -> {" "}] : k \in 0..MaxIndent}
JsTexts ==
    {ind \o FunctionKw \o nm \o tail :
        ind \in Indents, nm \in Names, tail \in {<<"(">>, <<"(", ")">>, <<>>}}

InitJs ==
    /\ pc = "text"
    /\ data = Record(FileJs, NoneVal, {})
    /\ Idle
    /\ \E fname \in {FileJs, FileTxt} : filename = fname
    /\ \E t \in JsTexts : src = [id |-> 0, cls |-> "none", text |-> t]
    /\ name \in Names \ {<<>>}
    /\ isdef = "unset"
    /\ isnamed = "unset"

NextJs ==
    \/ SourceFromLine
    \/ IsFunctionDefinition
    \/ IsNamedFunction

SpecJs == InitJs /\ [][NextJs]_vars

----------------------------------------------------------------------------
(* Vocabulary of the properties *)

Constructed == pc = "done"
InParse == pc \in {"loop", "done"} /\ lines # <<>>
Recognized == EndsWith(filename, DotPy) \/ EndsWith(filename, DotJs)
\* Indexes in lines of the body lines the loop has completed.
Processed == IF lines = <<>> THEN {} ELSE 2..(idx - 1)
IsHeaderAt(i) == i = 1 \/ IsHunkHeader(lines[i])
\* The index of the hunk header that governs line i (the last header before i).
HeaderBefore(i) ==
    CHOOSE j \in 1..(i - 1) :
        IsHeaderAt(j) /\ \A k \in (j + 1)..(i - 1) : ~IsHeaderAt(k)
\* New-file start written in the header at index j: '+start' or '+start,count'.
NewStartAt(j) == ParseInt(SplitOn(SplitWs(lines[j])[3], ",")[1]).v
FirstCharAt(i) == IF lines[i] = <<>> THEN "" ELSE lines[i][1]
\* Lines of the hunk before index i that are not removed lines (m of the claim).
KeptBefore(i) ==
    Cardinality({j \in (HeaderBefore(i) + 1)..(i - 1) : FirstCharAt(j) # "-"})
RemovedBefore(i) ==
    Cardinality({j \in (HeaderBefore(i) + 1)..(i - 1) : FirstCharAt(j) = "-"})
AllHeadersValid ==
    /\ lines # <<>>
    /\ parse_unified_diff(lines[1]).err.kind = "none"
    /\ \A i \in 2..Len(lines) :
           IsHunkHeader(lines[i]) => parse_unified_diff(lines[i]).err.kind = "none"

----------------------------------------------------------------------------
(* C1: after construction the three mappings agree: every position of      *)
(* modified_positions is the position of some line number whose            *)
(* modified_lines entry is that same object, every line number's entries   *)
(* are one object, and modified_lines and positions_by_line have the same  *)
(* keys.  Stated for every patch that parses, overlapping hunks included.  *)
C1_MappingsAgree ==
    Constructed =>
        /\ DOMAIN modified_lines = DOMAIN positions_by_line
        /\ \A n \in DOMAIN positions_by_line :
               /\ positions_by_line[n] \in DOMAIN modified_positions
               /\ modified_positions[positions_by_line[n]] = modified_lines[n]
        /\ \A p \in DOMAIN modified_positions :
               \E n \in DOMAIN positions_by_line :
                   /\ positions_by_line[n] = p
                   /\ modified_lines[n] = modified_positions[p]

(* C2: on a file with a recognized extension a removed line is in no       *)
(* mapping, leaves line_offset alone and advances position_offset by one:  *)
(* position_offset counts every completed body line, line_offset the       *)
(* completed lines of the current hunk that are not removed, and a         *)
(* recorded line after k removed and m kept lines of its hunk has line     *)
(* number start + m and position (position of its header) + k + m + 1.     *)
C2_RemovedLines ==
    (InParse /\ Recognized) =>
        /\ \A i \in Processed :
               FirstCharAt(i) = "-" =>
                   /\ (i - 1) \notin DOMAIN modified_positions
                   /\ \A n \in DOMAIN positions_by_line : positions_by_line[n] # i - 1
                   /\ \A n \in DOMAIN modified_lines :
                          \E p \in DOMAIN modified_positions :
                              /\ modified_positions[p] = modified_lines[n]
                              /\ p # i - 1
        /\ position_offset = Cardinality(Processed)
        /\ line_offset = KeptBefore(idx)
        /\ \A n \in DOMAIN positions_by_line :
               LET i == positions_by_line[n] + 1
               IN /\ i \in Processed
                  /\ FirstCharAt(i) = "+"
                  /\ n = NewStartAt(HeaderBefore(i)) + KeptBefore(i)
                  /\ positions_by_line[n] =
                         (HeaderBefore(i) - 1) + RemovedBefore(i) + KeptBefore(i) + 1

C2_Witness ==
    /\ Constructed /\ Recognized
    /\ \E n \in DOMAIN positions_by_line :
           LET i == positions_by_line[n] + 1
           IN RemovedBefore(i) >= 1 /\ KeptBefore(i) >= 1

(* C3: with several hunks on a file with a recognized extension, a later   *)
(* header replaces start_line by its own new-file start, resets            *)
(* line_offset to 0 and takes one position; the recorded positions are     *)
(* exactly the indexes, among the lines after the first, of the added      *)
(* lines, and grow strictly in patch order across hunks.                   *)
C3_HunkHeaders ==
    (InParse /\ Recognized) =>
        /\ start_line = NewStartAt(HeaderBefore(idx))
        /\ (idx > 2 /\ IsHunkHeader(lines[idx - 1])) => line_offset = 0
        /\ position_offset = idx - 2
        /\ DOMAIN modified_positions = {i - 1 : i \in {j \in Processed : FirstCharAt(j) = "+"}}
        /\ \A p \in DOMAIN modified_positions :
               modified_positions[p].text = Tail(lines[p + 1])
        /\ \A p, q \in DOMAIN modified_positions :
               p < q <=> modified_positions[p].id < modified_positions[q].id

C3_Witness ==
    /\ Constructed /\ Recognized
    /\ \E p, q \in DOMAIN modified_positions :
           /\ p < q
           /\ HeaderBefore(p + 1) = 1
           /\ HeaderBefore(q + 1) > 1
           /\ start_line = NewStartAt(HeaderBefore(q + 1))
           /\ start_line # NewStartAt(1)

(* C4: get_position_for_line(n) returns positions_by_line[n] when n was    *)
(* recorded, fails with KeyError for every n that is not a key of          *)
(* positions_by_line, and in both cases leaves the three mappings alone.   *)
C4_GetPositionForLine ==
    [][pc = "done" =>
          /\ UNCHANGED mapVars
          /\ result'.kind \in {"return", "KeyError"}
          /\ result'.kind = "return" <=> result'.arg \in DOMAIN positions_by_line
          /\ result'.kind = "return" => result'.value = positions_by_line[result'.arg]
      ]_vars

C4_Witness ==
    /\ Constructed
    /\ DOMAIN positions_by_line # {}
    /\ result.kind = "KeyError"
    /\ \E n \in DOMAIN positions_by_line : n < result.arg

(* C5: an added line of a file with no registered dialect is left out of   *)
(* the mappings but advances line_offset and position_offset as a normal   *)
(* added line does: position_offset counts every completed body line.      *)
C5_UnknownDialectAdvances ==
    (InParse /\ ~Recognized) =>
        /\ modified_positions = EmptyDict
        /\ modified_lines = EmptyDict
        /\ positions_by_line = EmptyDict
        /\ position_offset = Cardinality(Processed)
        /\ line_offset = KeptBefore(idx)

(* C6: when the first line and every later '@@ ' line are valid hunk       *)
(* headers, _parse_patch never raises, whatever the other body lines are   *)
(* (a zero-length line included), and a body line whose first character    *)
(* is neither '+' nor '-' counts as context.                               *)
C6_PermissiveBody ==
    (FirstMissing(data) = 0 /\ AllHeadersValid) =>
        /\ pc # "raised"
        /\ (InParse /\ Recognized) =>
               /\ position_offset = Cardinality(Processed)
               /\ \A i \in Processed :
                      FirstCharAt(i) \notin {"+", "-"} =>
                          (i - 1) \notin DOMAIN modified_positions

(* C7: every malformed hunk header fails with the one malformed-header     *)
(* error kind (ValueError), and the failure leaves the constructor.        *)
C7_OneHeaderErrorKind ==
    /\ (pc = "raised" /\ lines # <<>> /\ IsHeaderAt(idx)
            /\ parse_unified_diff(lines[idx]).err.kind # "none")
           => err.kind = "ValueError"
    /\ (pc \in {"loop", "done"} /\ lines # <<>>) =>
           \A i \in 1..(idx - 1) :
               IsHeaderAt(i) => parse_unified_diff(lines[i]).err.kind = "none"

(* C8: a record with every mandatory field whose patch is absent, None or  *)
(* the empty string constructs without error, with the three mappings      *)
(* empty and no hunk header parsed (no line is ever split off the patch).  *)
PatchAbsentOrEmpty ==
    \/ K_patch \notin DOMAIN data
    \/ data[K_patch].type = "None"
    \/ data[K_patch].v = <<>>

C8_EmptyPatch ==
    (FirstMissing(data) = 0 /\ PatchAbsentOrEmpty) =>
        /\ pc \in {"new", "parse", "done"}
        /\ err = NoErr
        /\ modified_positions = EmptyDict
        /\ modified_lines = EmptyDict
        /\ positions_by_line = EmptyDict
        /\ lines = <<>>
        /\ idx = 0

C8_Witness ==
    /\ Constructed
    /\ K_patch \in DOMAIN data
    /\ data[K_patch] = Str(<<>>)
    /\ modified_positions = EmptyDict

(* C9: a record lacking a mandatory field fails construction with an       *)
(* error raised to the caller, the patch unparsed, and the raised failure  *)
(* carries the record's filename.                                          *)
C9_MissingFieldCarriesFilename ==
    (FirstMissing(data) # 0 /\ pc # "new") =>
        /\ pc = "raised"
        /\ err.kind = "KeyError"
        /\ lines = <<>>
        /\ K_filename \in DOMAIN data => data[K_filename] \in Range(err.args)

(* C10: for a JsLine, is_function_definition() is true exactly when the    *)
(* text is optional blanks, 'function ', one or more word characters and   *)
(* '('; so it is true whenever is_named_function(name) is, for a name of   *)
(* word characters.                                                        *)
JsPatternOfClaim(text) ==
    \E k \in 0..Len(text), n \in 1..Len(text) :
        /\ \A i \in 1..k : IsSpace(text[i])
        /\ StartsWith(SubSeq(text, k + 1, Len(text)), FunctionKw)
        /\ Len(text) >= k + Len(FunctionKw) + n + 1
        /\ \A i \in 1..n : IsWordChar(text[k + Len(FunctionKw) + i])
        /\ text[k + Len(FunctionKw) + n + 1] = "("

C10_JsFunctionDefinition ==
    (src.cls = "JsLine" /\ isdef # "unset") =>
        /\ isdef = Bool(JsPatternOfClaim(src.text))
        /\ isnamed = "True" => isdef = "True"

====
